---- MODULE Spec2Model ----
(***************************************************************************)
(* A model of the noir-static-analyzer: the parse step (ast/parser.rs),    *)
(* the single-pass traversal that fills the AstContext (ast/analyzer.rs),  *)
(* the UnusedFunction rule (lints/unused_function.rs) and the reporter     *)
(* (diagnostics/reporter.rs).                                              *)
(*                                                                         *)
(* Spec       : the pipeline of cli/src/main.rs run_linters: parse, build  *)
(*              an Analyzer, analyze (possibly again on the same tree).    *)
(* SpecReport : Reporter::pretty_report applied to lints and a source file.*)
(***************************************************************************)
EXTENDS Integers, Sequences, FiniteSets, Bags, TLC

VARIABLES
    phase,        \* position of run_linters / analyze
    source,       \* the source text, as the provider sees it: items and parse errors
    parsed,       \* Result<ParsedModule, AnalyzerError> of the parse step, or None
    analyzer,     \* the Analyzer: context, lint_rules, stack
    item_index,   \* next item of parsed_module.items to visit
    rule_index,   \* next rule of lint_rules to run
    lints,        \* the local `lints` vector of analyze
    result,       \* what analyze returned
    previous,     \* what the previous analyze call on this Analyzer returned
    rule_log,     \* history: the lint() invocations of the current analyze call
    stack_log,    \* history: the stack after each step of the traversal in progress
    runs,         \* number of analyze calls started on this Analyzer
    file,         \* the file the reporter re-reads
    report_lints, \* the lints handed to pretty_report
    report_index, \* next lint of the reporter's loop
    output,       \* the String pretty_report builds, as a sequence of lines
    resolved      \* history: the (line, column) pairs get_line_column returned

vars == <<phase, source, parsed, analyzer, item_index, rule_index, lints, result,
          previous, rule_log, stack_log, runs, file, report_lints, report_index, output, resolved>>

analysis_vars == <<source, parsed, analyzer, item_index, rule_index, lints, result,
                   previous, rule_log, stack_log, runs>>

report_vars == <<file, report_lints, report_index, output, resolved>>

---------------------------------------------------------------------------
(* Bounds of the model *)

MaxItems == 2

MaxRules == 2

MaxRuns == 2

MaxLen == 3

MaxLints == 2

---------------------------------------------------------------------------
(* Option and Result values *)

None == [kind |-> "None"]

Some(v) == [kind |-> "Some", value |-> v]

---------------------------------------------------------------------------
(* The syntax tree the provider produces (noirc_frontend), as far as the   *)
(* analyzer reads it.  An identifier's text is a sequence of characters;   *)
(* the identifiers are a, b and ab.                                        *)

A == <<"a">>

B == <<"b">>

AB == <<"a", "b">>

PlainPath(segments) == [kind |-> "Plain", segments |-> segments]

CratePath(segments) == [kind |-> "Crate", segments |-> segments]

Variable(path) == [kind |-> "Variable", path |-> path]

Literal == [kind |-> "Literal"]

Call(func, arguments, is_macro_call) ==
    [kind |-> "Call", func |-> func, arguments |-> arguments,
     is_macro_call |-> is_macro_call]

CallTo(segments, arguments) == Call(Variable(PlainPath(segments)), arguments, FALSE)

ExpressionStatement(expression) == [kind |-> "Expression", expression |-> expression]

LetStatement == [kind |-> "Let"]

SemiStatement(expression) == [kind |-> "Semi", expression |-> expression]

\* Bodies the traversal interprets: plain-path calls, as statements.
HandledBodies ==
    { <<>>,
      <<ExpressionStatement(CallTo(<<A>>, <<>>))>>,
      <<ExpressionStatement(CallTo(<<AB>>, <<>>))>> }

\* More bodies of plain-path calls: a call as an argument of a call, the
\* two-segment path a::b, two sibling calls.
MoreBodies ==
    { <<ExpressionStatement(CallTo(<<A>>, <<CallTo(<<AB>>, <<>>)>>))>>,
      <<ExpressionStatement(CallTo(<<A, B>>, <<>>))>>,
      <<ExpressionStatement(CallTo(<<A>>, <<>>)), ExpressionStatement(CallTo(<<AB>>, <<>>))>> }

\* The body of a function ab that calls itself in the argument of a call.
NestedBodies ==
    { <<ExpressionStatement(CallTo(<<A>>, <<CallTo(<<AB>>, <<>>)>>))>> }

\* Legal bodies with a construct the traversal has no case for.
UnhandledBodies ==
    { <<LetStatement>>,
      <<SemiStatement(CallTo(<<AB>>, <<>>))>>,
      <<ExpressionStatement(Literal)>>,
      <<ExpressionStatement(Call(Variable(PlainPath(<<AB>>)), <<>>, TRUE))>>,
      <<ExpressionStatement(Call(Variable(CratePath(<<AB>>)), <<>>, FALSE))>>,
      <<ExpressionStatement(Call(Literal, <<>>, FALSE))>> }

Visibilities == {"Private", "PublicCrate", "Public"}

FunctionSyntax(name, visibility, body) ==
    [kind |-> "Function", name |-> name, visibility |-> visibility, body |-> body]

StructSyntax == [kind |-> "Struct"]

\* The top-level items a source text may declare.
ItemSyntaxes ==
    { FunctionSyntax(n, v, b) : n \in {A, AB}, v \in Visibilities, b \in HandledBodies }
    \cup { FunctionSyntax(A, "Public", b) : b \in MoreBodies }
    \cup { FunctionSyntax(AB, "Private", b) : b \in NestedBodies }
    \cup { FunctionSyntax(A, "Private", b) : b \in UnhandledBodies }
    \cup { StructSyntax }

ParserErrors == { <<>>, <<"e1">>, <<"e1", "e2">> }

\* A source text: what it declares, and the errors the provider finds in it.
Sources ==
    { [items |-> its, errors |-> es] :
        its \in UNION { [1..n -> ItemSyntaxes] : n \in 0..MaxItems },
        es \in ParserErrors }

Span(start, end) == [start |-> start, end |-> end]

\* The spans the provider records for the i-th declaration `fn name() {}`:
\* the name token, and the definition's `location`, which is the body block
\* (for "fn foo() {}" at byte 13 the tests expect location 22..24, the name
\* token being 16..19).
NameSpan(i, name) == Span(20 * (i - 1) + 3, 20 * (i - 1) + 3 + Len(name))

LocationSpan(i, name) == Span(20 * (i - 1) + 6 + Len(name), 20 * (i - 1) + 8 + Len(name))

\* Item of the parsed module for the i-th declaration.
ParsedItem(i, syntax) ==
    IF syntax.kind = "Function"
    THEN [kind |-> "Function",
          def |-> [name |-> [contents |-> syntax.name, span |-> NameSpan(i, syntax.name)],
                   visibility |-> syntax.visibility,
                   body |-> [statements |-> syntax.body],
                   location |-> [span |-> LocationSpan(i, syntax.name)]]]
    ELSE [kind |-> syntax.kind]

\* noirc_frontend::parse_program: (ast_root, errors).
parse_program(src) ==
    [ast_root |-> [items |-> [i \in DOMAIN src.items |-> ParsedItem(i, src.items[i])]],
     errors |-> src.errors]

---------------------------------------------------------------------------
(* ast/parser.rs *)

Ok(v) == [kind |-> "Ok", value |-> v]

Err(e) == [kind |-> "Err", error |-> e]

ParsingError(errors) == [kind |-> "ParsingError", errors |-> errors]

GenericError(message) == [kind |-> "GenericError", message |-> message]

FileReadError == [kind |-> "FileReadError"]

parse_program_with_dummy_file(src) ==
    LET r == parse_program(src)
    IN  IF r.errors # <<>> THEN Err(ParsingError(r.errors)) ELSE Ok(r.ast_root)

\* mutant: the provider's errors are dropped
parse_file_dropping_errors(readable, src) ==
    IF ~readable THEN Err(FileReadError) ELSE Ok(parse_program(src).ast_root)

\* `readable`: whether fs::read_to_string succeeds on file_path.
parse_file(readable, src) ==
    IF ~readable
    THEN Err(FileReadError)
    ELSE LET r == parse_program(src)
         IN  IF r.errors # <<>> THEN Err(ParsingError(r.errors)) ELSE Ok(r.ast_root)

---------------------------------------------------------------------------
(* ast/ast_context.rs *)

EmptyMap == <<>>

Insert(map, key, value) == (key :> value) @@ map

AstContext_new(parsed_module) ==
    [parsed_module |-> "&parsed_module",
     function_definitions |-> EmptyMap,
     function_calls |-> EmptyMap]

---------------------------------------------------------------------------
(* ast/analyzer.rs: the Analyzer and its Visitor implementation.  A visit  *)
(* yields the Analyzer after it, its bool, and whether it panicked         *)
(* (todo!() and panic!() unwind out of analyze).                           *)

StackModule == [kind |-> "Module"]

StackFunction == [kind |-> "Function"]

StackFunctionCall == [kind |-> "FunctionCall"]

StackIdentifiers(identifiers) == [kind |-> "Identifiers", identifiers |-> identifiers]

boxed_clone(rule) == rule

Analyzer_new(rules) ==
    [context |-> None,
     lint_rules |-> [i \in DOMAIN rules |-> boxed_clone(rules[i])],
     stack |-> <<>>]

\* An entry of the history of the stack: what a visit did to it ("enter",
\* "push", "read", "exit"), the stack then, and for a read the
\* segments of the callee path of the call being visited.
Event(event, visit, stack, callee) ==
    [event |-> event, visit |-> visit, stack |-> stack, callee |-> callee]

Returned(self, ret) == [self |-> self, ret |-> ret, panicked |-> FALSE, trace |-> <<>>]

Panicked(self) == [self |-> self, ret |-> FALSE, panicked |-> TRUE, trace |-> <<>>]

\* the outcome v of a visit, after the events that came before it
After(events, v) == [v EXCEPT !.trace = events \o @]

\* Vec::truncate left out
Truncate_nothing(stack, size) == stack

Truncate(stack, size) == IF Len(stack) > size THEN SubSeq(stack, 1, size) ELSE stack

RECURSIVE Join_separated(_)
\* the fold with "::" between the segments
Join_separated(identifiers) ==
    IF identifiers = <<>> THEN <<>>
    ELSE IF Len(identifiers) = 1 THEN identifiers[1]
    ELSE Join_separated(SubSeq(identifiers, 1, Len(identifiers) - 1))
             \o <<":", ":">> \o identifiers[Len(identifiers)]

RECURSIVE Join(_)
\* identifiers.iter().fold(String::new(), |acc, def| acc.add(&def.to_string()))
Join(identifiers) ==
    IF identifiers = <<>> THEN <<>>
    ELSE Join(SubSeq(identifiers, 1, Len(identifiers) - 1)) \o identifiers[Len(identifiers)]

visit_path(self, path) ==
    IF path.kind = "Plain"
    THEN LET pushed == [self EXCEPT !.stack = Append(@, StackIdentifiers(path.segments))]
         IN  After(<<Event("push", "path", pushed.stack, <<>>)>>, Returned(pushed, TRUE))
    ELSE Panicked(self)

\* The body of the `if let Some(StackItem::Identifiers(..)) = self.stack.last()`.
RecordCall(self, call) ==
    LET key == Join(self.stack[Len(self.stack)].identifiers)
        calls == self.context.value.function_calls
        entry == IF key \in DOMAIN calls THEN calls[key] ELSE <<>>
    IN  [self EXCEPT !.context.value.function_calls = Insert(calls, key, Append(entry, call))]

visit_expression(self, expression) ==
    LET stack_size == Len(self.stack)
        pushed == [self EXCEPT !.stack = Append(@, StackFunctionCall)]
        entered == <<Event("enter", "expression", self.stack, <<>>),
                     Event("push", "expression", pushed.stack, <<>>)>>
    IN  IF expression.kind # "Call" THEN After(entered, Panicked(pushed))
        ELSE IF expression.is_macro_call THEN After(entered, Panicked(pushed))
        ELSE IF expression.func.kind # "Variable" THEN After(entered, Panicked(pushed))
        ELSE LET path == visit_path(pushed, expression.func.path)
             IN  IF path.panicked THEN After(entered, path)
                 ELSE IF /\ path.self.stack # <<>>
                         /\ path.self.stack[Len(path.self.stack)].kind = "Identifiers"
                      THEN IF path.self.context = None
                           THEN After(entered \o path.trace, Panicked(path.self))
                           ELSE LET recorded == RecordCall(path.self, expression)
                                    left == [recorded EXCEPT !.stack = Truncate(@, stack_size)]
                                IN  After(entered \o path.trace
                                            \o <<Event("read", "expression", path.self.stack,
                                                       expression.func.path.segments),
                                                 Event("exit", "expression", left.stack, <<>>)>>,
                                          Returned(left, TRUE))
                      ELSE After(entered \o path.trace, Panicked(path.self))

visit_statement(self, statement) ==
    IF statement.kind = "Expression"
    THEN visit_expression(self, statement.expression)
    ELSE Panicked(self)

RECURSIVE visit_statements(_, _, _)
\* for item in &function.def.body.statements { self.visit_statement(item); }
visit_statements(self, statements, i) ==
    IF i > Len(statements) THEN Returned(self, TRUE)
    ELSE LET v == visit_statement(self, statements[i])
         IN  IF v.panicked THEN v
             ELSE After(v.trace, visit_statements(v.self, statements, i + 1))

\* visit_noir_function that keeps the entry a name already has
visit_noir_function_keeping_first(self, function) ==
    LET stack_size == Len(self.stack)
        pushed == [self EXCEPT !.stack = Append(@, StackFunction)]
        entered == <<Event("enter", "function", self.stack, <<>>),
                     Event("push", "function", pushed.stack, <<>>)>>
    IN  IF pushed.context = None THEN After(entered, Panicked(pushed))
        ELSE LET name == function.def.name.contents
                 inserted ==
                     [pushed EXCEPT !.context.value.function_definitions =
                         IF name \in DOMAIN @ THEN @ ELSE Insert(@, name, function.def)]
                 body == visit_statements(inserted, function.def.body.statements, 1)
                 left == [body.self EXCEPT !.stack = Truncate(@, stack_size)]
             IN  IF body.panicked THEN After(entered, body)
                 ELSE After(entered \o body.trace
                                \o <<Event("exit", "function", left.stack, <<>>)>>,
                            Returned(left, TRUE))

visit_noir_function(self, function) ==
    LET stack_size == Len(self.stack)
        pushed == [self EXCEPT !.stack = Append(@, StackFunction)]
        entered == <<Event("enter", "function", self.stack, <<>>),
                     Event("push", "function", pushed.stack, <<>>)>>
    IN  IF pushed.context = None THEN After(entered, Panicked(pushed))
        ELSE LET inserted ==
                     [pushed EXCEPT !.context.value.function_definitions =
                         Insert(@, function.def.name.contents, function.def)]
                 body == visit_statements(inserted, function.def.body.statements, 1)
                 left == [body.self EXCEPT !.stack = Truncate(@, stack_size)]
             IN  IF body.panicked THEN After(entered, body)
                 ELSE After(entered \o body.trace
                                \o <<Event("exit", "function", left.stack, <<>>)>>,
                            Returned(left, TRUE))

visit_item(self, item) ==
    IF item.kind = "Function" THEN visit_noir_function(self, item) ELSE Panicked(self)

---------------------------------------------------------------------------
(* lints/unused_function.rs *)

Text(s) == <<s>>

UnusedFunction_name == "unused-function"

\* mutant: the lint points at the name token
UnusedLint_name_span(function) ==
    [name |-> UnusedFunction_name,
     severity |-> "Warning",
     description |-> Text("Function '") \o function.name.contents \o Text("' is unused"),
     span |-> Some(function.name.span)]

UnusedLint(function) ==
    [name |-> UnusedFunction_name,
     severity |-> "Warning",
     description |-> Text("Function '") \o function.name.contents \o Text("' is unused"),
     span |-> Some(function.location.span)]

\* mutant: the visibility is not looked at
UnusedFunction_lint_any_visibility(context, order) ==
    LET unused(name) == name \notin DOMAIN context.function_calls
        hits == SelectSeq(order, unused)
    IN  [i \in 1..Len(hits) |->
            [name |-> UnusedFunction_name,
             severity |-> "Warning",
             description |-> Text("Function '") \o hits[i] \o Text("' is unused"),
             span |-> Some(context.function_definitions[hits[i]].location.span)]]

\* mutant: the recorded calls are not looked at
UnusedFunction_lint_ignoring_calls(context, order) ==
    LET unused(name) == context.function_definitions[name].visibility # "Public"
        hits == SelectSeq(order, unused)
    IN  [i \in 1..Len(hits) |->
            [name |-> UnusedFunction_name,
             severity |-> "Warning",
             description |-> Text("Function '") \o hits[i] \o Text("' is unused"),
             span |-> Some(context.function_definitions[hits[i]].location.span)]]

\* mutant: the loop stops after the first entry of the map
UnusedFunction_lint_first_entry(context, order) ==
    LET unused(name) ==
            /\ context.function_definitions[name].visibility # "Public"
            /\ name \notin DOMAIN context.function_calls
        hits == SelectSeq(IF order = <<>> THEN <<>> ELSE <<order[1]>>, unused)
    IN  [i \in 1..Len(hits) |->
            [name |-> UnusedFunction_name,
             severity |-> "Warning",
             description |-> Text("Function '") \o hits[i] \o Text("' is unused"),
             span |-> Some(context.function_definitions[hits[i]].location.span)]]

\* `order`: the order in which the HashMap iterates its keys.
UnusedFunction_lint(context, order) ==
    LET unused(name) ==
            /\ context.function_definitions[name].visibility # "Public"
            /\ name \notin DOMAIN context.function_calls
        hits == SelectSeq(order, unused)
    IN  [i \in 1..Len(hits) |-> UnusedLint(context.function_definitions[hits[i]])]

\* The iteration orders of a HashMap with the keys S.
Orders(S) ==
    { s \in [1..Cardinality(S) -> S] : \A i, j \in 1..Cardinality(S) : i # j => s[i] # s[j] }

---------------------------------------------------------------------------
(* diagnostics/reporter.rs.  A text is a sequence of one-byte characters;  *)
(* an output line is a sequence of tokens, an ANSI escape being one token  *)
(* of no width.                                                            *)

LF == "\n"

CR == "\r"

Whitespace == {" ", LF, CR}

Escapes == {"ESC[0m", "ESC[1m", "ESC[1;31m", "ESC[1;33m", "ESC[1;34m", "ESC[1;36m", "ESC[1;37m"}

DropLast(s) == SubSeq(s, 1, Len(s) - 1)

\* the closure of str::lines: strip the "\n", then a "\r" before it
StripLineEnding(piece) ==
    IF piece # <<>> /\ piece[Len(piece)] = LF
    THEN LET line == DropLast(piece)
         IN  IF line # <<>> /\ line[Len(line)] = CR THEN DropLast(line) ELSE line
    ELSE piece

RECURSIVE SplitInclusive(_)
\* str::split_inclusive('\n'): pieces ending with their "\n", the last one maybe without
SplitInclusive(text) ==
    IF text = <<>> THEN <<>>
    ELSE LET ends == { i \in DOMAIN text : text[i] = LF }
         IN  IF ends = {} THEN <<text>>
             ELSE LET k == CHOOSE i \in ends : \A j \in ends : i <= j
                  IN  <<SubSeq(text, 1, k)>> \o SplitInclusive(SubSeq(text, k + 1, Len(text)))

\* str::lines
lines(text) ==
    LET pieces == SplitInclusive(text)
    IN  [i \in DOMAIN pieces |-> StripLineEnding(pieces[i])]

RECURSIVE TrimStart(_)
TrimStart(s) ==
    IF s # <<>> /\ s[1] \in Whitespace THEN TrimStart(Tail(s)) ELSE s

RECURSIVE TrimEnd(_)
TrimEnd(s) ==
    IF s # <<>> /\ s[Len(s)] \in Whitespace THEN TrimEnd(DropLast(s)) ELSE s

\* str::trim
trim(s) == TrimEnd(TrimStart(s))

Repeat(c, n) == [i \in 1..n |-> c]

RECURSIVE ScanLines_late(_, _, _, _)
\* the loop with `current_offset += line_length` ahead of the test
ScanLines_late(ls, line_number, current_offset, byte_offset) ==
    IF line_number >= Len(ls) THEN [line |-> 1, column |-> 1]
    ELSE LET next_offset == current_offset + Len(ls[line_number + 1]) + 1
         IN  IF next_offset > byte_offset
             THEN [line |-> line_number + 1, column |-> (byte_offset - next_offset) + 1]
             ELSE ScanLines_late(ls, line_number + 1, next_offset, byte_offset)

RECURSIVE ScanLines(_, _, _, _)
\* the loop of get_line_column over contents.lines().enumerate()
ScanLines(ls, line_number, current_offset, byte_offset) ==
    IF line_number >= Len(ls) THEN [line |-> 1, column |-> 1]
    ELSE LET line_length == Len(ls[line_number + 1]) + 1
         IN  IF current_offset + line_length > byte_offset
             THEN [line |-> line_number + 1, column |-> (byte_offset - current_offset) + 1]
             ELSE ScanLines(ls, line_number + 1, current_offset + line_length, byte_offset)

\* get_line_column answering (0, 0) when there is no text to scan
get_line_column_zero_fallback(f, byte_offset) ==
    IF f.readable
    THEN ScanLines(lines(f.contents), 0, 0, byte_offset)
    ELSE [line |-> 0, column |-> 0]

get_line_column(f, byte_offset) ==
    IF f.readable
    THEN ScanLines(lines(f.contents), 0, 0, byte_offset)
    ELSE [line |-> 1, column |-> 1]

get_source_line(f, line_number) ==
    IF f.readable
    THEN LET ls == lines(f.contents)
         IN  IF line_number - 1 < Len(ls) THEN Some(ls[line_number]) ELSE None
    ELSE None

severity_label(severity) ==
    IF severity = "Error"
    THEN <<"ESC[1;31m", "error", "ESC[0m">>
    ELSE <<"ESC[1;33m", "warning", "ESC[0m">>

LabelLine(lint) ==
    [kind |-> "label",
     text |-> severity_label(lint.severity) \o <<":", " ", "ESC[1m">>
              \o lint.description \o <<"ESC[0m">>]

LocationLine(line, column) ==
    [kind |-> "location", text |-> <<" ", " ", "-", "-", ">", " ", "ESC[1;36m">>,
     line |-> line, column |-> column]

SnippetLine(source_line) ==
    [kind |-> "snippet",
     text |-> <<" ", "ESC[1;37m", "|", " ">> \o trim(source_line) \o <<"ESC[0m">>]

CaretLine(padding) ==
    [kind |-> "caret",
     text |-> <<" ", "ESC[1;37m">> \o Repeat(" ", padding)
              \o <<" ", "ESC[1;31m", "^", "ESC[0m">>]

BlankLine == [kind |-> "blank", text |-> <<>>]

\* pretty_report with `output.push('\n')` moved inside `if let Some(span)`
LintBlock_blank_inside_span(lint, f) ==
    <<LabelLine(lint)>>
    \o (IF lint.span = None THEN <<>>
        ELSE LET at == get_line_column(f, lint.span.value.start)
                 source_line == get_source_line(f, at.line)
             IN  <<LocationLine(at.line, at.column)>>
                 \o (IF source_line = None THEN <<>>
                     ELSE <<SnippetLine(source_line.value), CaretLine(at.column - 1)>>)
                 \o <<BlankLine>>)

\* what one turn of the loop of pretty_report writes
LintBlock(lint, f) ==
    <<LabelLine(lint)>>
    \o (IF lint.span = None THEN <<>>
        ELSE LET at == get_line_column(f, lint.span.value.start)
                 source_line == get_source_line(f, at.line)
             IN  <<LocationLine(at.line, at.column)>>
                 \o (IF source_line = None THEN <<>>
                     ELSE <<SnippetLine(source_line.value), CaretLine(at.column - 1)>>))
    \o <<BlankLine>>

---------------------------------------------------------------------------
(* The pipeline: cli/src/main.rs run_linters, and Analyzer::analyze step   *)
(* by step (one step per top-level item, one per rule).                    *)

NoReport ==
    /\ file = None
    /\ report_lints = <<>>
    /\ report_index = 0
    /\ output = <<>>
    /\ resolved = <<>>

Init ==
    /\ phase = "start"
    /\ source \in Sources
    /\ parsed = None
    /\ analyzer = None
    /\ item_index = 0
    /\ rule_index = 0
    /\ lints = <<>>
    /\ result = None
    /\ previous = None
    /\ rule_log = <<>>
    /\ stack_log = <<>>
    /\ runs = 0
    /\ NoReport

AfterParse(r) ==
    /\ parsed' = r
    /\ phase' = IF r.kind = "Ok" THEN "parsed" ELSE "parse_failed"
    /\ UNCHANGED <<source, analyzer, item_index, rule_index, lints, result, previous,
                   rule_log, stack_log, runs>>
    /\ UNCHANGED report_vars

\* Parser::parse_program_with_dummy_file(&source)
ParseProgramWithDummyFile ==
    /\ phase = "start"
    /\ AfterParse(parse_program_with_dummy_file(source))

\* Parser::parse_file(path)
ParseFile ==
    /\ phase = "start"
    /\ \E readable \in BOOLEAN : AfterParse(parse_file(readable, source))

\* Analyzer::new(&lints), the registry holding n copies of the checked-in rule
NewAnalyzer ==
    /\ phase = "parsed"
    /\ \E n \in 0..MaxRules :
          analyzer' = Analyzer_new([i \in 1..n |-> UnusedFunction_name])
    /\ phase' = "ready"
    /\ UNCHANGED <<source, parsed, item_index, rule_index, lints, result, previous,
                   rule_log, stack_log, runs>>
    /\ UNCHANGED report_vars

\* analyze that keeps the context it already has
analyze_begin_keeping_context(self, parsed_module) ==
    [self EXCEPT !.context = IF @ = None THEN Some(AstContext_new(parsed_module)) ELSE @,
                 !.stack = Append(@, StackModule)]

\* `self.context = Some(AstContext::new(parsed_module))`, and the push of
\* visit_parsed_module
analyze_begin(self, parsed_module) ==
    [self EXCEPT !.context = Some(AstContext_new(parsed_module)),
                 !.stack = Append(@, StackModule)]

\* analyze, up to the first item: the context is replaced, visit_parsed_module
\* pushes its frame.
BeginAnalyze ==
    /\ analyzer' = analyze_begin(analyzer, parsed.value)
    /\ stack_log' = <<Event("push", "module", analyzer'.stack, <<>>)>>
    /\ phase' = "traversing"
    /\ item_index' = 1
    /\ rule_index' = 0
    /\ lints' = <<>>
    /\ rule_log' = <<>>
    /\ runs' = runs + 1
    /\ previous' = result
    /\ result' = None
    /\ UNCHANGED <<source, parsed>>
    /\ UNCHANGED report_vars

Analyze ==
    /\ phase = "ready"
    /\ BeginAnalyze

\* a further analyze call on the same Analyzer, with the same tree
AnalyzeAgain ==
    /\ phase = "done"
    /\ runs < MaxRuns
    /\ BeginAnalyze

\* one turn of the loop of visit_parsed_module
VisitItem ==
    /\ phase = "traversing"
    /\ item_index <= Len(parsed.value.items)
    /\ \E v \in {visit_item(analyzer, parsed.value.items[item_index])} :
           /\ analyzer' = v.self
           /\ stack_log' = stack_log \o v.trace
           /\ IF v.panicked
              THEN /\ phase' = "panicked"
                   /\ result' = [kind |-> "Panic"]
                   /\ item_index' = item_index
              ELSE IF ~v.ret
              THEN /\ phase' = "done"
                   /\ result' = Err(GenericError("AST traversal failed"))
                   /\ item_index' = item_index
              ELSE /\ phase' = "traversing"
                   /\ result' = result
                   /\ item_index' = item_index + 1
    /\ UNCHANGED <<source, parsed, rule_index, lints, previous, rule_log, runs>>
    /\ UNCHANGED report_vars

\* the end of visit_parsed_module, and `let mut lints = vec![]`
EndTraversal ==
    /\ phase = "traversing"
    /\ item_index > Len(parsed.value.items)
    /\ analyzer' = [analyzer EXCEPT !.stack = <<>>]
    /\ stack_log' = <<>>
    /\ phase' = "sweeping"
    /\ lints' = <<>>
    /\ rule_index' = 1
    /\ UNCHANGED <<source, parsed, item_index, result, previous, rule_log, runs>>
    /\ UNCHANGED report_vars

\* mutant: a rule's output goes in front of the earlier ones
Sweep_prepending ==
    /\ phase = "sweeping"
    /\ rule_index <= Len(analyzer.lint_rules)
    /\ \E order \in Orders(DOMAIN analyzer.context.value.function_definitions) :
          LET out == UnusedFunction_lint(analyzer.context.value, order)
          IN  /\ lints' = out \o lints
              /\ rule_log' = Append(rule_log, [rule |-> rule_index,
                                               output |-> out,
                                               visited |-> item_index - 1])
    /\ rule_index' = rule_index + 1
    /\ UNCHANGED <<phase, source, parsed, analyzer, item_index, result, previous,
                   stack_log, runs>>
    /\ UNCHANGED report_vars

\* one turn of `for lint_rule in &self.lint_rules`
Sweep ==
    /\ phase = "sweeping"
    /\ rule_index <= Len(analyzer.lint_rules)
    /\ \E order \in Orders(DOMAIN analyzer.context.value.function_definitions) :
          LET out == UnusedFunction_lint(analyzer.context.value, order)
          IN  /\ lints' = lints \o out
              /\ rule_log' = Append(rule_log, [rule |-> rule_index,
                                               output |-> out,
                                               visited |-> item_index - 1])
    /\ rule_index' = rule_index + 1
    /\ UNCHANGED <<phase, source, parsed, analyzer, item_index, result, previous,
                   stack_log, runs>>
    /\ UNCHANGED report_vars

\* Ok(lints)
Return ==
    /\ phase = "sweeping"
    /\ rule_index > Len(analyzer.lint_rules)
    /\ result' = Ok(lints)
    /\ phase' = "done"
    /\ UNCHANGED <<source, parsed, analyzer, item_index, rule_index, lints, previous,
                   rule_log, stack_log, runs>>
    /\ UNCHANGED report_vars

Next ==
    \/ ParseProgramWithDummyFile
    \/ ParseFile
    \/ NewAnalyzer
    \/ Analyze
    \/ AnalyzeAgain
    \/ VisitItem
    \/ EndTraversal
    \/ Sweep
    \/ Return

Spec == Init /\ [][Next]_vars

---------------------------------------------------------------------------
(* Vocabulary of the properties of Spec *)

Items == parsed.value.items

Declarations == { i \in DOMAIN Items : Items[i].kind = "Function" }

Def(i) == Items[i].def

NonPublic(i) == Def(i).visibility # "Public"

\* analyze returned Ok
Returned_Ok == phase = "done" /\ result.kind = "Ok"

ReturnedLints == result.value

Context == analyzer.context.value

DescriptionFor(name) == Text("Function '") \o name \o Text("' is unused")

\* the lints that point at the i-th declaration
LintsAt(i) == { k \in DOMAIN ReturnedLints : ReturnedLints[k].span = Some(Def(i).location.span) }

\* the lints that name the function `name`
LintsNaming(name) ==
    { k \in DOMAIN ReturnedLints : /\ ReturnedLints[k].name = "unused-function"
                                   /\ ReturnedLints[k].severity = "Warning"
                                   /\ ReturnedLints[k].description = DescriptionFor(name) }

\* no later declaration has the same name
LastOfItsName(i) ==
    \A j \in Declarations : j > i => Def(j).name.contents # Def(i).name.contents

RECURSIVE CallsOf(_)
\* the call expressions of an expression, by structural descent
CallsOf(e) ==
    IF e.kind = "Call"
    THEN {e} \cup CallsOf(e.func)
             \cup UNION { CallsOf(e.arguments[k]) : k \in DOMAIN e.arguments }
    ELSE {}

\* the call expressions in the function bodies of the module
CallsOfModule ==
    UNION { UNION { CallsOf(Def(i).body.statements[k].expression) :
                      k \in 1..Len(Def(i).body.statements) } : i \in Declarations }

\* the joined callee names of the module's calls through a plain path
CalledNames ==
    { Join(c.func.path.segments) :
        c \in { d \in CallsOfModule : d.func.kind = "Variable" /\ d.func.path.kind = "Plain" } }

BagOf(seq) ==
    [x \in { seq[i] : i \in DOMAIN seq } |-> Cardinality({ i \in DOMAIN seq : seq[i] = x })]

RECURSIVE Concat(_)
Concat(seqs) ==
    IF seqs = <<>> THEN <<>>
    ELSE Concat(SubSeq(seqs, 1, Len(seqs) - 1)) \o seqs[Len(seqs)]

OneRule == Len(analyzer.lint_rules) = 1

---------------------------------------------------------------------------
(* C1: public exemption.  When analyze returns, no returned lint points at *)
(* a declaration marked `pub`, whatever the module calls.                  *)
C1_PublicExemption ==
    Returned_Ok =>
        \A i \in Declarations : Def(i).visibility = "Public" => LintsAt(i) = {}

\* a module with a public function nobody calls, analyzed by the rule, which
\* reported another function
C1_Witness ==
    /\ Returned_Ok
    /\ analyzer.lint_rules # <<>>
    /\ ReturnedLints # <<>>
    /\ \E i \in Declarations : /\ Def(i).visibility = "Public"
                               /\ Def(i).name.contents \notin DOMAIN Context.function_calls

(* C2 as stated: with the UnusedFunction rule alone, every non-public      *)
(* top-level function whose name is the key of no recorded call site gets  *)
(* exactly one "unused-function" Warning with description                  *)
(* "Function '<name>' is unused", and there are no other lints.            *)
C2_Original ==
    (Returned_Ok /\ OneRule) =>
        /\ \A i \in Declarations :
              (NonPublic(i) /\ Def(i).name.contents \notin DOMAIN Context.function_calls)
                  => Cardinality(LintsNaming(Def(i).name.contents)) = 1
        /\ \A k \in DOMAIN ReturnedLints :
              \E i \in Declarations :
                  /\ NonPublic(i)
                  /\ Def(i).name.contents \notin DOMAIN Context.function_calls
                  /\ k \in LintsNaming(Def(i).name.contents)

(* C2, amended: the same for the non-public functions that are the last    *)
(* declaration of their name (a later declaration of the same name         *)
(* replaces the earlier one in function_definitions); no other lints.      *)
C2_UnreferencedDetection ==
    (Returned_Ok /\ OneRule) =>
        /\ \A i \in Declarations :
              (/\ NonPublic(i)
               /\ LastOfItsName(i)
               /\ Def(i).name.contents \notin DOMAIN Context.function_calls)
                  => /\ Cardinality(LintsNaming(Def(i).name.contents)) = 1
                     /\ LintsAt(i) = LintsNaming(Def(i).name.contents)
        /\ \A k \in DOMAIN ReturnedLints :
              \E i \in Declarations :
                  /\ NonPublic(i)
                  /\ LastOfItsName(i)
                  /\ Def(i).name.contents \notin DOMAIN Context.function_calls
                  /\ k \in LintsNaming(Def(i).name.contents)

\* two unreferenced non-public functions of different names, both reported
C2_Witness ==
    /\ Returned_Ok
    /\ OneRule
    /\ Len(ReturnedLints) = 2
    /\ \E i \in Declarations : Def(i).visibility = "PublicCrate"

(* C3 as stated: a non-public function whose name is the joined plain      *)
(* callee path of some call expression in a function body of the module    *)
(* gets no lint.                                                           *)
C3_CallSuppression ==
    Returned_Ok =>
        \A i \in Declarations :
            (NonPublic(i) /\ Def(i).name.contents \in CalledNames) => LintsAt(i) = {}

(* C4 as stated: every "unused-function" lint carries the span of the name *)
(* token of the function it reports.                                       *)
C4_Original ==
    Returned_Ok =>
        \A k \in DOMAIN ReturnedLints :
            \E i \in Declarations :
                /\ ReturnedLints[k].description = DescriptionFor(Def(i).name.contents)
                /\ ReturnedLints[k].span = Some(Def(i).name.span)

(* C4, amended: every "unused-function" lint carries the `location` span   *)
(* of the reported function's definition (the body block), and that        *)
(* definition is the last non-public declaration of the name.              *)
C4_LintSpan ==
    Returned_Ok =>
        \A k \in DOMAIN ReturnedLints :
            \E i \in Declarations :
                /\ NonPublic(i)
                /\ LastOfItsName(i)
                /\ ReturnedLints[k].description = DescriptionFor(Def(i).name.contents)
                /\ ReturnedLints[k].span = Some(Def(i).location.span)
                /\ ReturnedLints[k].span # Some(Def(i).name.span)

\* a lint was returned for the second of two declarations
C4_Witness ==
    /\ Returned_Ok
    /\ \E k \in DOMAIN ReturnedLints : ReturnedLints[k].span = Some(LocationSpan(2, A))

(* C5 as stated: analyze runs to completion on every syntactically legal   *)
(* module; a construct the engine does not interpret never aborts the pass.*)
C5_BestEffortTraversal == phase # "panicked"

(* C6: when the provider reports errors, the parse step returns            *)
(* Err(ParsingError(errors)) with exactly that list, the pipeline stops    *)
(* and no Analyzer or context exists for the source; with no errors it     *)
(* returns Ok with the provider's module.  (parse_file may instead fail to *)
(* read the file.)                                                         *)
C6_ParseFailureStops ==
    phase # "start" =>
        \/ parsed = Err(FileReadError) /\ phase = "parse_failed" /\ analyzer = None
        \/ /\ source.errors # <<>>
           /\ parsed = Err(ParsingError(source.errors))
           /\ phase = "parse_failed"
           /\ analyzer = None
        \/ /\ source.errors = <<>>
           /\ parsed = Ok(parse_program(source).ast_root)

\* a source with two errors and a declaration was parsed
C6_Witness ==
    /\ phase = "parse_failed"
    /\ parsed.kind = "Err"
    /\ parsed.error.kind = "ParsingError"
    /\ Len(parsed.error.errors) = 2
    /\ source.items # <<>>

(* C7: within an analyze call the rules' lint() run only after every item  *)
(* of the module has been visited, in registration order, each at most     *)
(* once; when analyze returns Ok each has run exactly once and the result  *)
(* is the concatenation of their outputs in that order.                    *)
C7_RuleSweepOrdering ==
    /\ phase \in {"start", "parse_failed", "parsed", "ready", "traversing", "panicked"}
          => rule_log = <<>>
    /\ \A k \in DOMAIN rule_log :
          /\ rule_log[k].rule = k
          /\ k <= Len(analyzer.lint_rules)
          /\ rule_log[k].visited = Len(Items)
    /\ Returned_Ok =>
          /\ Len(rule_log) = Len(analyzer.lint_rules)
          /\ ReturnedLints = Concat([k \in DOMAIN rule_log |-> rule_log[k].output])

\* two rules ran over a module of two items, and their outputs differ
C7_Witness ==
    /\ Returned_Ok
    /\ Len(analyzer.lint_rules) = 2
    /\ Len(Items) = 2
    /\ rule_log[1].output # rule_log[2].output

\* no rule registered: the result is empty
C7_WitnessNoRule ==
    /\ Returned_Ok
    /\ analyzer.lint_rules = <<>>
    /\ ReturnedLints = <<>>
    /\ Declarations # {}

(* C8: two analyze runs over the same tree with the same rules return the  *)
(* same multiset of lints.                                                 *)
C8_Determinism ==
    (Returned_Ok /\ previous.kind = "Ok") => BagOf(ReturnedLints) = BagOf(previous.value)

\* the two runs returned the same lints in different orders
C8_Witness ==
    /\ Returned_Ok
    /\ previous.kind = "Ok"
    /\ ReturnedLints # previous.value
    /\ Len(ReturnedLints) = Len(previous.value)

---------------------------------------------------------------------------
(* Reporter::pretty_report(lints, file_path), one lint per step *)

Characters == {"a", " ", LF, CR}

Texts == UNION { [1..n -> Characters] : n \in 0..MaxLen }

Files ==
    { [readable |-> FALSE, contents |-> <<>>] }
    \cup { [readable |-> TRUE, contents |-> t] : t \in Texts }

\* lints as the rule builds them, at any start offset, and a lint without a span
ReportableLints ==
    { [name |-> UnusedFunction_name, severity |-> "Warning",
       description |-> Text("Function '") \o A \o Text("' is unused"),
       span |-> Some(Span(o, o + 1))] : o \in 0..(MaxLen + 1) }
    \cup { [name |-> "file-level", severity |-> "Error",
            description |-> Text("synthetic"), span |-> None] }

InitReport ==
    /\ phase = "report"
    /\ source = [items |-> <<>>, errors |-> <<>>]
    /\ parsed = None
    /\ analyzer = None
    /\ item_index = 0
    /\ rule_index = 0
    /\ lints = <<>>
    /\ result = None
    /\ previous = None
    /\ rule_log = <<>>
    /\ stack_log = <<>>
    /\ runs = 0
    /\ file \in Files
    /\ report_lints \in UNION { [1..n -> ReportableLints] : n \in 0..MaxLints }
    /\ report_index = 1
    /\ output = <<>>
    /\ resolved = <<>>

\* one turn of `for lint in lints`
RenderLint ==
    /\ phase = "report"
    /\ report_index <= Len(report_lints)
    /\ LET lint == report_lints[report_index]
       IN  /\ output' = output \o LintBlock(lint, file)
           /\ resolved' =
                 IF lint.span = None THEN resolved
                 ELSE Append(resolved,
                             [lint |-> report_index,
                              first |-> Len(output) + 1,
                              byte_offset |-> lint.span.value.start,
                              at |-> get_line_column(file, lint.span.value.start)])
    /\ report_index' = report_index + 1
    /\ UNCHANGED <<phase, file, report_lints>>
    /\ UNCHANGED analysis_vars

\* `output` is returned
FinishReport ==
    /\ phase = "report"
    /\ report_index > Len(report_lints)
    /\ phase' = "reported"
    /\ UNCHANGED report_vars
    /\ UNCHANGED analysis_vars

NextReport == RenderLint \/ FinishReport

SpecReport == InitReport /\ [][NextReport]_vars

---------------------------------------------------------------------------
(* Vocabulary of the properties of SpecReport *)

\* the tokens of a line that take a column on the terminal
Visible(text) == SelectSeq(text, LAMBDA token : token \notin Escapes)

\* the 1-based line of the text that holds the byte at `offset` (0-based):
\* one more than the number of "\n" before it
TrueLine(text, offset) == Cardinality({ i \in 1..offset : text[i] = LF }) + 1

\* the 0-based offset at which that line starts
LineStart(text, offset) ==
    LET before == { i \in 1..offset : text[i] = LF }
    IN  IF before = {} THEN 0 ELSE CHOOSE i \in before : \A j \in before : j <= i

TrueColumn(text, offset) == offset - LineStart(text, offset) + 1

Located == { k \in DOMAIN resolved : file.readable /\ resolved[k].byte_offset < Len(file.contents) }

(* C9 as stated: for a readable file and a span starting inside the text,  *)
(* the reporter prints the 1-based line that holds the start byte and the  *)
(* 1-based column of that byte in its line, for LF and for CRLF endings.   *)
C9_LineColumn ==
    \A k \in Located :
        /\ resolved[k].at.line = TrueLine(file.contents, resolved[k].byte_offset)
        /\ resolved[k].at.column = TrueColumn(file.contents, resolved[k].byte_offset)
        /\ output[resolved[k].first + 1].line = resolved[k].at.line
        /\ output[resolved[k].first + 1].column = resolved[k].at.column

\* the same, for texts without "\r": it holds
C9_LineColumn_LF ==
    (\A i \in DOMAIN file.contents : file.contents[i] # CR) => C9_LineColumn

\* the blocks that carry a snippet and a caret line, and whose reported column is
\* a character of the printed (trimmed) line
Pointed ==
    { k \in DOMAIN resolved :
        /\ resolved[k].first + 3 <= Len(output)
        /\ output[resolved[k].first + 2].kind = "snippet"
        /\ LET source_line == get_source_line(file, resolved[k].at.line).value
               indent == Len(source_line) - Len(TrimStart(source_line))
           IN  /\ resolved[k].at.column > indent
               /\ resolved[k].at.column <= indent + Len(trim(source_line)) }

CaretPosition(k) ==
    LET caret == Visible(output[resolved[k].first + 3].text)
    IN  CHOOSE i \in DOMAIN caret : caret[i] = "^"

\* where the snippet line shows the character at the reported column
PointedPosition(k) ==
    LET source_line == get_source_line(file, resolved[k].at.line).value
        indent == Len(source_line) - Len(TrimStart(source_line))
        snippet == Visible(output[resolved[k].first + 2].text)
        text_start == Len(snippet) - Len(trim(source_line)) + 1
    IN  text_start + (resolved[k].at.column - indent - 1)

(* C10 as stated: in the block of a lint with a span, the caret sits       *)
(* directly under the character of the printed source line that is at the  *)
(* reported column, whatever the indentation of the source line.           *)
C10_CaretAligned ==
    \A k \in Pointed : CaretPosition(k) = PointedPosition(k)

---------------------------------------------------------------------------
(* The structure of the report *)

BlankPositions == { p \in DOMAIN output : output[p].kind = "blank" }

\* the position of the k-th blank line of the output
NthBlank(k) ==
    CHOOSE p \in BlankPositions : Cardinality({ q \in BlankPositions : q <= p }) = k

\* the lines from the end of block k - 1 to the k-th blank line
BlockOf(k) ==
    SubSeq(output, IF k = 1 THEN 1 ELSE NthBlank(k - 1) + 1, NthBlank(k))

Kinds(block) == [i \in DOMAIN block |-> block[i].kind]

SeverityWord(severity) == IF severity = "Error" THEN "error" ELSE "warning"

\* what the first line of the block of a lint shows
ShownLabel(lint) == <<SeverityWord(lint.severity), ":", " ">> \o lint.description

\* the file has the line that the location line of the block names
SourceLineExtracted(block) ==
    file.readable /\ block[2].line <= Len(lines(file.contents))

(* C11: the returned report is one block per input lint, in input order;   *)
(* each block starts with the severity label and description line and ends *)
(* with its only blank line; a lint without a span gives those two lines   *)
(* alone; a lint with a span adds the location line and, exactly when the  *)
(* source line can be extracted, the snippet and the caret line.           *)
C11_ReportStructure ==
    phase = "reported" =>
        /\ Cardinality(BlankPositions) = Len(report_lints)
        /\ output # <<>> => output[Len(output)].kind = "blank"
        /\ \A k \in DOMAIN report_lints :
              LET lint == report_lints[k]
                  block == BlockOf(k)
              IN  /\ block[1].kind = "label"
                  /\ Visible(block[1].text) = ShownLabel(lint)
                  /\ lint.span = None => Kinds(block) = <<"label", "blank">>
                  /\ lint.span # None =>
                        Kinds(block) =
                            IF SourceLineExtracted(block)
                            THEN <<"label", "location", "snippet", "caret", "blank">>
                            ELSE <<"label", "location", "blank">>

\* a report of a lint without a span followed by a lint with a snippet
C11_Witness ==
    /\ phase = "reported"
    /\ Len(report_lints) = 2
    /\ report_lints[1].span = None
    /\ report_lints[2].span # None
    /\ Len(output) = 7
    /\ output[5].kind = "snippet"

LabelLines == SelectSeq(output, LAMBDA l : l.kind = "label")

(* C12: when the source file cannot be read again, every lint with a span  *)
(* is reported at line 1, column 1, and the returned report still holds    *)
(* the label and description line of every input lint, in order.          *)
C12_UnreadableFile ==
    ~file.readable =>
        /\ \A k \in DOMAIN resolved :
              /\ resolved[k].at = [line |-> 1, column |-> 1]
              /\ output[resolved[k].first + 1].kind = "location"
              /\ output[resolved[k].first + 1].line = 1
              /\ output[resolved[k].first + 1].column = 1
        /\ phase = "reported" =>
              /\ Len(LabelLines) = Len(report_lints)
              /\ \A k \in DOMAIN report_lints :
                    Visible(LabelLines[k].text) = ShownLabel(report_lints[k])

\* the report of two lints with spans, returned for an unreadable file
C12_Witness ==
    /\ phase = "reported"
    /\ ~file.readable
    /\ Len(report_lints) = 2
    /\ Len(resolved) = 2
    /\ report_lints[1].span.value.start # report_lints[2].span.value.start

---------------------------------------------------------------------------
(* Further properties of Spec *)

\* the statement is a call, not a macro call, whose callee is not a plain path
CallWithoutPlainPath(statement) ==
    /\ statement.kind = "Expression"
    /\ statement.expression.kind = "Call"
    /\ ~statement.expression.is_macro_call
    /\ \/ statement.expression.func.kind # "Variable"
       \/ statement.expression.func.path.kind # "Plain"

\* the statement is a call through a plain path
PlainCall(statement) ==
    /\ statement.kind = "Expression"
    /\ statement.expression.kind = "Call"
    /\ ~statement.expression.is_macro_call
    /\ statement.expression.func.kind = "Variable"
    /\ statement.expression.func.path.kind = "Plain"

\* analyze has ended while visiting a call site whose frame is on top of the
\* stack, with no identifier-path frame over it
CallSiteWithoutIdentifiers ==
    /\ phase \in {"panicked", "done"}
    /\ analyzer.stack # <<>>
    /\ analyzer.stack[Len(analyzer.stack)].kind = "FunctionCall"
    /\ item_index \in Declarations
    /\ \E k \in DOMAIN Def(item_index).body.statements :
          /\ CallWithoutPlainPath(Def(item_index).body.statements[k])
          /\ \A j \in 1..(k - 1) : PlainCall(Def(item_index).body.statements[j])

(* C13 as stated: when a call site is visited and no identifier-path frame *)
(* is on top of the stack, analyze returns the traversal-failure error     *)
(* (GenericError) as a value; it does not abort.                           *)
C13_TraversalFailureIsValue ==
    CallSiteWithoutIdentifiers =>
        /\ phase = "done"
        /\ result = Err(GenericError("AST traversal failed"))

\* what the code does instead: analyze never returns the GenericError
C13_NeverGenericError ==
    ~(phase = "done" /\ result.kind = "Err")

\* visit_parsed_module returned true
TraversalSucceeded == phase = "sweeping" \/ Returned_Ok

DeclaredNames == { Def(i).name.contents : i \in Declarations }

\* the last top-level declaration of the name
LastDeclaration(name) ==
    CHOOSE i \in Declarations : Def(i).name.contents = name /\ LastOfItsName(i)

(* C14: after a successful traversal function_definitions has exactly one  *)
(* entry per distinct top-level function name, and the entry of a name is  *)
(* the definition of the last top-level function declared with it; a       *)
(* module of n functions with n different names gives n entries.           *)
C14_DefinitionMap ==
    TraversalSucceeded =>
        /\ DOMAIN Context.function_definitions = DeclaredNames
        /\ \A name \in DeclaredNames :
              Context.function_definitions[name] = Def(LastDeclaration(name))
        /\ (\A i, j \in Declarations : i # j => Def(i).name.contents # Def(j).name.contents)
              => Cardinality(DOMAIN Context.function_definitions) = Len(Items)

\* two declarations of one name with different definitions: one entry, the second's
C14_Witness ==
    /\ TraversalSucceeded
    /\ Len(Items) = 2
    /\ Def(1).name.contents = Def(2).name.contents
    /\ Def(1).visibility # Def(2).visibility
    /\ Cardinality(DOMAIN Context.function_definitions) = 1
    /\ Context.function_definitions[Def(2).name.contents] = Def(2)

RECURSIVE KeyOf(_)
\* the texts of the segments one after another, nothing between them
KeyOf(segments) ==
    IF segments = <<>> THEN <<>> ELSE Head(segments) \o KeyOf(Tail(segments))

\* the expressions of the statements of the function bodies, in source order:
\* the call expressions the traversal visits
VisitedCalls ==
    Concat([i \in DOMAIN Items |->
               [k \in DOMAIN Def(i).body.statements |->
                   Def(i).body.statements[k].expression]])

(* C15: after a successful traversal the keys of function_calls are the    *)
(* segment texts of the visited calls' callee paths joined with nothing    *)
(* between them, and the sequence under a key is the visited calls of that *)
(* key, each once, in source order; the paths a::b and ab share the key ab.*)
C15_CallRecording ==
    TraversalSucceeded =>
        /\ DOMAIN Context.function_calls =
              { KeyOf(VisitedCalls[n].func.path.segments) : n \in DOMAIN VisitedCalls }
        /\ \A key \in DOMAIN Context.function_calls :
              Context.function_calls[key] =
                  SelectSeq(VisitedCalls, LAMBDA c : KeyOf(c.func.path.segments) = key)

\* the call a::b() of the first function and the call ab() of the second,
\* recorded in this order under the one key ab
C15_Witness ==
    /\ TraversalSucceeded
    /\ DOMAIN Context.function_calls = {AB}
    /\ Len(Context.function_calls[AB]) = 2
    /\ Context.function_calls[AB][1].func.path.segments = <<A, B>>
    /\ Context.function_calls[AB][2].func.path.segments = <<AB>>

\* the positions of the history where a visit of the given kind did `event`
EventsOf(event, visit) ==
    { p \in DOMAIN stack_log : stack_log[p].event = event /\ stack_log[p].visit = visit }

\* the entry of the visit that leaves at position p of the history
EntryOf(p) ==
    LET entries == { q \in EventsOf("enter", stack_log[p].visit) : q < p }
    IN  CHOOSE q \in entries : \A r \in entries : r <= q

\* the loop of visit_parsed_module has ended, the stack is not yet cleared
AllItemsVisited == phase = "traversing" /\ item_index > Len(Items)

(* C16: the identifier-path frame a call-expression visit reads is the one *)
(* the visit of that call's own callee path has just pushed; each          *)
(* call-expression visit and each function visit that returns leaves the   *)
(* stack as deep as it found it; the stack never holds more than four      *)
(* frames (module, function, call site, identifier path); and it is empty  *)
(* when analyze returns Ok.                                                *)
C16_StackDiscipline ==
    /\ \A p \in EventsOf("read", "expression") :
          /\ stack_log[p - 1].event = "push"
          /\ stack_log[p - 1].visit = "path"
          /\ stack_log[p - 1].stack = stack_log[p].stack
          /\ stack_log[p].stack[Len(stack_log[p].stack)] =
                StackIdentifiers(stack_log[p].callee)
    /\ \A p \in EventsOf("exit", "expression") \cup EventsOf("exit", "function") :
          Len(stack_log[p].stack) = Len(stack_log[EntryOf(p)].stack)
    /\ AllItemsVisited =>
          \A visit \in {"expression", "function"} :
              Cardinality(EventsOf("exit", visit)) = Cardinality(EventsOf("enter", visit))
    /\ \A p \in DOMAIN stack_log : Len(stack_log[p].stack) <= 4
    /\ analyzer # None => Len(analyzer.stack) <= 4
    /\ Returned_Ok => analyzer.stack = <<>>

\* the traversal of a function of two sibling calls, a() and then ab(), has
\* ended: each read its own path at depth four
C16_Witness ==
    /\ AllItemsVisited
    /\ Cardinality(EventsOf("read", "expression")) = 2
    /\ \E p, q \in EventsOf("read", "expression") :
          /\ p < q
          /\ stack_log[p].callee = <<A>>
          /\ stack_log[q].callee = <<AB>>
          /\ Len(stack_log[p].stack) = 4
          /\ Len(stack_log[q].stack) = 4
          /\ \A r \in p..q : stack_log[r].visit # "function"

---------------------------------------------------------------------------
(* One Analyzer, analyze called on one module after another *)

ReuseItems ==
    { FunctionSyntax(A, "Private", <<>>),
      FunctionSyntax(AB, "Private", <<>>),
      FunctionSyntax(A, "Public", <<ExpressionStatement(CallTo(<<AB>>, <<>>))>>),
      FunctionSyntax(AB, "PublicCrate", <<ExpressionStatement(CallTo(<<A>>, <<>>))>>) }

ReuseSources ==
    { [items |-> its, errors |-> <<>>] :
        its \in UNION { [1..n -> ReuseItems] : n \in 0..MaxItems } }

InitReuse ==
    /\ phase = "start"
    /\ source \in ReuseSources
    /\ parsed = None
    /\ analyzer = None
    /\ item_index = 0
    /\ rule_index = 0
    /\ lints = <<>>
    /\ result = None
    /\ previous = None
    /\ rule_log = <<>>
    /\ stack_log = <<>>
    /\ runs = 0
    /\ NoReport

\* another text is parsed and analyze is called with its tree on the same Analyzer
AnalyzeOther ==
    /\ phase = "done"
    /\ runs < MaxRuns
    /\ \E other \in ReuseSources \ {source} :
          /\ source' = other
          /\ parsed' = parse_program_with_dummy_file(other)
    /\ analyzer' = analyze_begin(analyzer, parsed'.value)
    /\ stack_log' = <<Event("push", "module", analyzer'.stack, <<>>)>>
    /\ phase' = "traversing"
    /\ item_index' = 1
    /\ rule_index' = 0
    /\ lints' = <<>>
    /\ rule_log' = <<>>
    /\ runs' = runs + 1
    /\ previous' = result
    /\ result' = None
    /\ UNCHANGED report_vars

NextReuse ==
    \/ ParseProgramWithDummyFile
    \/ ParseFile
    \/ NewAnalyzer
    \/ Analyze
    \/ AnalyzeAgain
    \/ AnalyzeOther
    \/ VisitItem
    \/ EndTraversal
    \/ Sweep
    \/ Return

SpecReuse == InitReuse /\ [][NextReuse]_vars

RECURSIVE FreshTraversal(_, _, _)
\* the Analyzer after the visits of the items from the i-th on
FreshTraversal(self, items, i) ==
    IF i > Len(items) THEN self
    ELSE FreshTraversal(visit_item(self, items[i]).self, items, i + 1)

\* the context a new Analyzer builds for the module
FreshContext(module) ==
    FreshTraversal(analyze_begin(Analyzer_new(<<>>), module), module.items, 1).context.value

\* what the rule reports on that context, in some order
FreshLints(module) ==
    LET context == FreshContext(module)
    IN  UnusedFunction_lint(context,
                            CHOOSE order \in Orders(DOMAIN context.function_definitions) : TRUE)

(* C17: every analyze call starts with both maps of the context empty and  *)
(* the rule sweep leaves them as the traversal built them, so whatever was *)
(* analyzed before on the same Analyzer, the context after the traversal   *)
(* and the lints each rule reports are the ones a new Analyzer gives for   *)
(* the module of this call (the lints up to their order).                  *)
C17_NoCrossPassReuse ==
    /\ (phase = "traversing" /\ item_index = 1) =>
          /\ Context.function_definitions = EmptyMap
          /\ Context.function_calls = EmptyMap
    /\ TraversalSucceeded => Context = FreshContext(parsed.value)
    /\ Returned_Ok =>
          /\ \A k \in DOMAIN rule_log :
                BagOf(rule_log[k].output) = BagOf(FreshLints(parsed.value))
          /\ ReturnedLints = Concat([k \in DOMAIN rule_log |-> rule_log[k].output])

\* the second call returned for a module of the private a alone, after a call
\* on another module had reported ab
C17_Witness ==
    /\ Returned_Ok
    /\ runs = 2
    /\ OneRule
    /\ previous.kind = "Ok"
    /\ \E k \in DOMAIN previous.value : previous.value[k].description = DescriptionFor(AB)
    /\ Len(Items) = 1
    /\ DOMAIN Context.function_definitions = {A}
    /\ Context.function_calls = EmptyMap
    /\ Len(ReturnedLints) = 1

---------------------------------------------------------------------------
(* More properties of Spec *)

\* the call node is an entry of function_calls, under the key of its callee path
Recorded(call) ==
    LET key == KeyOf(call.func.path.segments)
    IN  /\ key \in DOMAIN Context.function_calls
        /\ \E n \in DOMAIN Context.function_calls[key] :
              Context.function_calls[key][n] = call

(* C18 as stated: after the traversal every call expression reached from a *)
(* function body by structural descent has its entry in function_calls,    *)
(* a call that is an argument of another call included: for f(g()) both    *)
(* the call of f and the call of g.                                        *)
C18_StructuralDescent ==
    TraversalSucceeded =>
        \A call \in CallsOfModule :
            (call.func.kind = "Variable" /\ call.func.path.kind = "Plain") => Recorded(call)

\* what the code does: the calls that are statements are recorded
C18_StatementCallsRecorded ==
    TraversalSucceeded => \A n \in DOMAIN VisitedCalls : Recorded(VisitedCalls[n])

\* the plain-path calls of the body of the i-th declaration, by structural descent
CallSitesIn(i) ==
    { c \in UNION { CallsOf(Def(i).body.statements[k].expression) :
                      k \in DOMAIN Def(i).body.statements } :
        c.func.kind = "Variable" /\ c.func.path.kind = "Plain" }

\* the declarations whose body holds a call site of `name`
CallersOf(name) ==
    { j \in Declarations : \E c \in CallSitesIn(j) : KeyOf(c.func.path.segments) = name }

\* the declarations with a statement that is a call of `name`
StatementCallersOf(name) ==
    { j \in Declarations :
        \E k \in DOMAIN Def(j).body.statements :
            KeyOf(Def(j).body.statements[k].expression.func.path.segments) = name }

ReportedUnused(i) == LintsNaming(Def(i).name.contents) # {}

(* C19 as stated: a non-public function that has call sites, all of them   *)
(* in its own body (self-recursion) or in the body of a function that is   *)
(* itself reported unused, is not reported unused, wherever the calls      *)
(* stand relative to its declaration.                                      *)
C19_KeyPresenceOnly ==
    Returned_Ok =>
        \A i \in Declarations :
            ( /\ NonPublic(i)
              /\ CallersOf(Def(i).name.contents) # {}
              /\ \A j \in CallersOf(Def(i).name.contents) : j = i \/ ReportedUnused(j) )
            => ~ReportedUnused(i)

\* the same for the call sites that are statements of a body: it holds
C19_StatementCallSites ==
    Returned_Ok =>
        \A i \in Declarations :
            ( /\ NonPublic(i)
              /\ StatementCallersOf(Def(i).name.contents) # {}
              /\ \A j \in StatementCallersOf(Def(i).name.contents) : j = i \/ ReportedUnused(j) )
            => ~ReportedUnused(i)

\* the private a calls ab before ab is declared and is reported unused; ab,
\* called there and in its own body only, is not reported
C19_StatementWitness ==
    /\ Returned_Ok
    /\ OneRule
    /\ Len(Items) = 2
    /\ Def(1).name.contents = A /\ NonPublic(1)
    /\ Def(2).name.contents = AB /\ NonPublic(2)
    /\ StatementCallersOf(AB) = {1, 2}
    /\ ReportedUnused(1)
    /\ ~ReportedUnused(2)

---------------------------------------------------------------------------
(* More properties of SpecReport *)

\* the lines the reporter scans: none when the file cannot be read
ScannedLines == IF file.readable THEN lines(file.contents) ELSE <<>>

RECURSIVE OffsetAfter(_, _)
\* the offset the scan has counted after n lines: each line and one byte more
OffsetAfter(ls, n) ==
    IF n = 0 THEN 0 ELSE OffsetAfter(ls, n - 1) + Len(ls[n]) + 1

\* some line of the scan covers the offset
Covered(byte_offset) == byte_offset < OffsetAfter(ScannedLines, Len(ScannedLines))

(* C20: for every file content and every byte offset, at or past the end   *)
(* of the text and in an empty file too, get_line_column answers with a    *)
(* line and a column that are at least 1; the difference of the offset and *)
(* the start of the chosen line is not negative, and the column is at most *)
(* the length of that line plus one; an offset no line covers gives (1, 1).*)
(* The caret line is padded with column - 1 spaces.                        *)
C20_LineColumnRange ==
    \A k \in DOMAIN resolved :
        LET at == resolved[k].at
            byte_offset == resolved[k].byte_offset
        IN  /\ at.line >= 1
            /\ at.column >= 1
            /\ Covered(byte_offset) =>
                  /\ at.line <= Len(ScannedLines)
                  /\ byte_offset - OffsetAfter(ScannedLines, at.line - 1) >= 0
                  /\ at.column = (byte_offset - OffsetAfter(ScannedLines, at.line - 1)) + 1
                  /\ at.column <= Len(ScannedLines[at.line]) + 1
            /\ ~Covered(byte_offset) => at = [line |-> 1, column |-> 1]
            /\ \A p \in DOMAIN output :
                  (p = resolved[k].first + 3 /\ output[p].kind = "caret") =>
                      Len(Visible(output[p].text)) = 1 + (at.column - 1) + 2

\* a report for a readable file: one span starts on the byte after the text of
\* a line (column = length + 1), one starts past the end of the file
C20_Witness ==
    /\ phase = "reported"
    /\ file.readable
    /\ Len(resolved) = 2
    /\ Covered(resolved[1].byte_offset)
    /\ resolved[1].at.column > 1
    /\ resolved[1].at.column = Len(ScannedLines[resolved[1].at.line]) + 1
    /\ resolved[2].byte_offset > Len(file.contents)
    /\ resolved[2].at = [line |-> 1, column |-> 1]

\* a span in an empty file
C20_WitnessEmptyFile ==
    /\ phase = "reported"
    /\ file.readable
    /\ file.contents = <<>>
    /\ Len(resolved) = 1
    /\ resolved[1].at = [line |-> 1, column |-> 1]

====
